---- MODULE Spec2Model ----
(***************************************************************************)
(* State-machine model of the marketing-operations backend: the contact    *)
(* spam scorer, A/B variant assignment, GDPR deletion and retention,       *)
(* privacy-policy activation, webhook delivery and retry, the Celery email *)
(* task and the per-IP rate limits of the public endpoints.                *)
(*                                                                         *)
(* Scores that the code keeps as floats (0.15, 0.3, ...) are kept here as  *)
(* integers in thousandths, so 1.0 is 1000 and 0.7 is 700.                 *)
(***************************************************************************)
EXTENDS Integers, Sequences, FiniteSets, TLC

VARIABLES
    \* CheckSubmissionSpam object (contacts/services.py)
    spamPc,         \* position inside calculate_spam_score
    data,           \* self.data: the submission, as the features check_content reads
    spam_score,     \* self.spam_score, thousandths
    spamResult,     \* what calculate_spam_score returned: [is_spam, score] or NoResult
    \* A/B testing (ab_testing/models.py, ab_testing/services.py)
    hash_value,     \* user -> md5(test id, user) % 100, fixed for the test
    traffic_split,  \* ABTest.traffic_split
    abStatus,       \* ABTest.status
    assignments,    \* VariantAssignment rows of the test: user -> "A", "B" or "none"
    abCall,         \* get_variant calls in flight: caller -> idle or the row to create
    returned,       \* user -> the variants get_variant has returned for that user
    afterChange,    \* user -> "no", "changed" (traffic_split changed since the user's
                    \* first variant) or "answered" (and get_variant answered since)
    \* Privacy policies (gdpr/models.py)
    policies,       \* PrivacyPolicy rows: id -> "absent", "active" or "inactive"
    policyLast,     \* the last save: [id, is_active, deactivated: rows it deactivated]
    \* send_email_task instances (integrations/tasks.py)
    tasks,          \* task -> [state, retries, delays: the countdowns it was retried with]
    \* submit_contact_form and its rate limit (contacts/views.py)
    contactHits,    \* ip -> the 'contact-submit' counter of the current window
    contactPassed,  \* ip -> requests of the current window that got past the limit
    contactResp,    \* ip -> the last response: [status, created: a row was stored,
                    \* verdict: of the spam check, effects: what the request
                    \* set off, submission_id: the id of the row stored]
    \* Stored personal data (rows are [email, created_at])
    now,            \* the clock, in days
    contacts,       \* ContactSubmission rows: [id, email, created_at, status, is_spam]
    waitlist,       \* WaitlistEntry rows
    leads,          \* Lead rows: [id, email, created_at, first_name, last_name, phone, company,
                    \* job_title, industry, company_size, lead_score]
    newsletter,     \* NewsletterSubscription rows: [email, created_at,
                    \* subscription_status, is_verified, verification_token]
    events,         \* analytics Event rows: [id, email (Event.user_identifier),
                    \* created_at, event_name]
    pageviews,      \* analytics PageView rows (no email)
    conversions,    \* ConversionByVariant rows of the test, by user_identifier
    consents,       \* Consent rows: email -> "none", "given" or "withdrawn"
    audits,         \* DataDeletionAudit rows: [email, deletion_type]
    \* delete_user_data endpoint and its rate limit (gdpr/api_views.py)
    gdprHits,       \* ip -> the 'gdpr-delete' counter of the current window
    gdprPassed,     \* ip -> requests of the current window that got past the limit
    gdprResp,       \* the last delete_user_data request and the status it was
                    \* answered with
    \* Retention (gdpr/models.py, gdpr/services.py)
    retention,      \* DataRetentionPolicy rows: data_type -> policy or NoPolicy
    retentionLog,   \* the last apply_retention_policies run: per data type the
                    \* retention_days applied and the rows deleted or anonymized
    \* Lead capture and scoring (leads/api_views.py)
    leadConversions, \* analytics Conversion rows of Lead objects: lead id -> how many
    leadHits,       \* ip -> the capture_lead requests it has sent this hour
    leadResp,       \* the last capture_lead request: [ip, body, status]
    \* Contact submissions API for admins (contacts/views.py)
    destroyResp,    \* the last DELETE of a contact submission: [id, status]
    \* A/B test statistics (ab_testing/models.py: ABTestStats)
    variantCount,   \* variant -> VariantAssignment rows of the test with that variant
    conversionCount, \* variant -> ConversionByVariant rows of the test with that variant
    stats,          \* the stored ABTestStats row: [statistical_significance, winner]
    statsCall,      \* how the last calculate_stats ended, "idle" once the rows changed
    \* CRM sync task (integrations/tasks.py, integrations/crm_service.py)
    crmTasks,       \* task id -> [state, retries, delays, last, result]
    \* Webhooks (webhooks/models.py, webhooks/services.py)
    retry_attempts, \* WebhookConfig.retry_attempts; 0 while there is no config
    webhookEvents   \* WebhookEvent rows in creation order: [status, attempt_count,
                    \* due: next_retry_at has passed, origin: the row of the
                    \* send_webhook call the request belongs to, posted: a request
                    \* was sent for the row]

spamVars == <<spamPc, data, spam_score, spamResult>>
abVars == <<hash_value, traffic_split, abStatus, assignments, abCall, returned, afterChange>>
policyVars == <<policies, policyLast>>
taskVars == <<tasks>>
contactVars == <<contactHits, contactPassed, contactResp>>
tables == <<contacts, waitlist, leads, newsletter, events, pageviews>>
storeVars == <<now, tables, conversions, consents, audits>>
gdprVars == <<gdprHits, gdprPassed, gdprResp>>
retentionVars == <<retention, retentionLog>>

leadVars == <<leadConversions, leadHits, leadResp>>
contactAdminVars == <<destroyResp>>
statsVars == <<variantCount, conversionCount, stats, statsCall>>
crmVars == <<crmTasks>>
webhookVars == <<retry_attempts, webhookEvents>>

vars == <<spamVars, abVars, policyVars, taskVars, contactVars, storeVars, gdprVars,
          retentionVars, leadVars, crmVars, contactAdminVars, statsVars, webhookVars>>

-----------------------------------------------------------------------------
(* Spam scoring: apps/backend/apps/contacts/services.py                     *)

\* Bounds of the submissions explored.
MaxMsgLen == 40
MaxKeywords == 4

\* Program constants.
MAX_LINKS == 3
CAPS_RATIO_THRESHOLD == 700
CAPS_MIN_LEN == 20
SHORT_MSG_LEN == 15
RECAPTCHA_REQUIRED_SCORE == 500
SPAM_THRESHOLD == 700
ONE == 1000

NoResult == [is_spam |-> FALSE, score |-> -1]

Min(a, b) == IF a < b THEN a ELSE b

\* Message lengths explored: around the two length thresholds of check_content.
MsgLens == {0, SHORT_MSG_LEN - 1, SHORT_MSG_LEN, CAPS_MIN_LEN, CAPS_MIN_LEN + 1, MaxMsgLen}

\* Uppercase counts explored for a message of length n: none, all, and the two
\* counts on either side of the 70% ratio.
\* Link counts explored: none, the most allowed, one too many.
LinkCounts == {0, MAX_LINKS, MAX_LINKS + 1}

UpperCounts(n) == {0, n} \cup ({(7 * n) \div 10, (7 * n) \div 10 + 1} \cap (0..n))

\* A submission as check_content sees it.  The text itself is abstracted to the
\* features the checks read: len and upper (characters, uppercase characters of
\* the message as submitted), keywords (SPAM_KEYWORDS found in message, name or
\* subject), links (https?:// matches), repeated ((.)\1{4,} matches), pattern
\* (one of spam_patterns matches), blDomain (a BLACKLISTED_DOMAINS entry is in
\* the email), wellFormed (the email matches email_pattern).
Submissions ==
    { d \in UNION { [len : {n}, upper : UpperCounts(n), keywords : 0..MaxKeywords,
                      links : LinkCounts, repeated : BOOLEAN, pattern : BOOLEAN,
                      blDomain : BOOLEAN, wellFormed : BOOLEAN] : n \in MsgLens } :
        \* a link takes at least 8 characters plus a separator, a repeated run 5
        /\ d.links * 9 <= d.len + 1
        /\ d.repeated => d.len >= 5
        /\ d.pattern => d.len >= 3
        /\ d.keywords > 0 => d.len + 2 >= 5 }

NoData == [len |-> 0, upper |-> 0, keywords |-> 0, links |-> 0, repeated |-> FALSE,
           pattern |-> FALSE, blDomain |-> FALSE, wellFormed |-> FALSE]

\* str.lower() on the message: no character stays uppercase, nothing else changes
\* (keywords, links and patterns are matched on the lowered text already).
Lower(d) == [d EXCEPT !.upper = 0]

\* check_honeypot: <<is_spam, score added>>
HoneypotValues == {"None", "empty", "blank", "filled"}
check_honeypot(hp) ==
    IF hp = "filled" THEN <<TRUE, ONE>> ELSE <<FALSE, 0>>

\* What reCAPTCHA verification can come to: the secret may be unset, the token
\* missing, the verification may fail, or succeed with a score in tenths.
RecaptchaScores == {0, 200, 400, 500, 900}
RecaptchaCases ==
    {[configured |-> FALSE, token |-> TRUE, success |-> FALSE, score |-> 0],
     [configured |-> TRUE, token |-> FALSE, success |-> FALSE, score |-> 0],
     [configured |-> TRUE, token |-> TRUE, success |-> FALSE, score |-> 0]}
    \cup {[configured |-> TRUE, token |-> TRUE, success |-> TRUE, score |-> s] :
            s \in RecaptchaScores}

\* check_recaptcha: <<is_spam, score added>>
check_recaptcha(rc) ==
    IF ~rc.configured THEN <<FALSE, 0>>
    ELSE IF ~rc.token THEN <<FALSE, 300>>
    ELSE IF ~rc.success THEN <<TRUE, 500>>
    ELSE IF rc.score < RECAPTCHA_REQUIRED_SCORE
         THEN <<rc.score < 300, (RECAPTCHA_REQUIRED_SCORE - rc.score) \div 2>>
         ELSE <<FALSE, 0>>

\* The ALL CAPS check of check_content, on the message it is given.
CapsHit(m) ==
    /\ m.len > CAPS_MIN_LEN
    /\ m.upper * ONE > CAPS_RATIO_THRESHOLD * m.len

\* check_content's content_score for the submission d.
content_score(d) ==
    LET message == Lower(d)
    IN  150 * d.keywords
        + (IF d.links > MAX_LINKS THEN 200 ELSE 0)
        + (IF CapsHit(message) THEN 100 ELSE 0)
        + (IF message.len > 0 /\ d.repeated THEN 100 ELSE 0)
        + (IF d.pattern THEN 100 ELSE 0)
        + (IF d.blDomain THEN 300 ELSE 0)
        + (IF ~d.wellFormed THEN 200 ELSE 0)
        + (IF message.len < SHORT_MSG_LEN THEN 100 ELSE 0)

\* check_content: <<is_spam, content_score>>
check_content(d) == <<content_score(d) > 500, content_score(d)>>

\* The final score of calculate_spam_score: min(1.0, self.spam_score).
FinalScoreNoClamp(s) == s
FinalScore(s) == Min(ONE, s)

\* The verdict at the end of calculate_spam_score: final_score > 0.7.
IsSpamAtLeast(final) == final >= SPAM_THRESHOLD
IsSpam(final) == final > SPAM_THRESHOLD

\* CheckSubmissionSpam(submission_data, request)
NewChecker(d) ==
    /\ spamPc = "idle"
    /\ data' = d
    /\ spam_score' = 0
    /\ spamResult' = NoResult
    /\ spamPc' = "constructed"

\* calculate_spam_score, entry: the fields are reset.
CalcStart ==
    /\ spamPc = "constructed"
    /\ spam_score' = 0
    /\ spamPc' = "honeypot"
    /\ UNCHANGED <<data, spamResult>>

\* calculate_spam_score, the honeypot check and its early return.
CalcHoneypot(hp) ==
    /\ spamPc = "honeypot"
    /\ IF hp = "None"
       THEN /\ spamPc' = "recaptcha"
            /\ UNCHANGED <<spam_score, spamResult>>
       ELSE LET r == check_honeypot(hp)
            IN  /\ spam_score' = spam_score + r[2]
                /\ IF r[1]
                   THEN /\ spamResult' = [is_spam |-> TRUE, score |-> ONE]
                        /\ spamPc' = "done"
                   ELSE /\ spamPc' = "recaptcha"
                        /\ UNCHANGED spamResult
    /\ UNCHANGED data

\* calculate_spam_score, the reCAPTCHA check and its early return.  given is
\* FALSE when recaptcha_token is None.
CalcRecaptcha(given, rc) ==
    /\ spamPc = "recaptcha"
    /\ IF ~given
       THEN /\ spamPc' = "ratelimit"
            /\ UNCHANGED <<spam_score, spamResult>>
       ELSE LET r == check_recaptcha(rc)
            IN  /\ spam_score' = spam_score + r[2]
                /\ IF r[1] /\ r[2] >= 500
                   THEN /\ spamResult' = [is_spam |-> TRUE,
                                          score |-> FinalScore(spam_score + r[2])]
                        /\ spamPc' = "done"
                   ELSE /\ spamPc' = "ratelimit"
                        /\ UNCHANGED spamResult
    /\ UNCHANGED data

\* calculate_spam_score, the rate-limit check and its early return.  limited is
\* what check_rate_limit answers (False without a request).
CalcRateLimit(limited) ==
    /\ spamPc = "ratelimit"
    /\ IF limited
       THEN /\ spamResult' = [is_spam |-> TRUE, score |-> ONE]
            /\ spamPc' = "done"
       ELSE /\ spamPc' = "content"
            /\ UNCHANGED spamResult
    /\ UNCHANGED <<data, spam_score>>

\* calculate_spam_score, the content check and the final score.
CalcContent ==
    /\ spamPc = "content"
    /\ LET total == spam_score + check_content(data)[2]
           final == FinalScore(total)
       IN  /\ spam_score' = total
           /\ spamResult' = [is_spam |-> IsSpam(final), score |-> final]
    /\ spamPc' = "done"
    /\ UNCHANGED data

\* The request is over and the checker object is dropped.
DropChecker ==
    /\ spamPc = "done"
    /\ spamPc' = "idle"
    /\ data' = NoData
    /\ spam_score' = 0
    /\ spamResult' = NoResult

SpamInit ==
    /\ spamPc = "idle"
    /\ data = NoData
    /\ spam_score = 0
    /\ spamResult = NoResult

NextSpam ==
    \/ spamPc = "idle" /\ \E d \in Submissions : NewChecker(d)
    \/ CalcStart
    \/ \E hp \in HoneypotValues : CalcHoneypot(hp)
    \/ \E given \in BOOLEAN, rc \in RecaptchaCases : CalcRecaptcha(given, rc)
    \/ \E limited \in BOOLEAN : CalcRateLimit(limited)
    \/ CalcContent
    \/ DropChecker

-----------------------------------------------------------------------------
(* A/B variant assignment: apps/ab_testing/models.py,                        *)
(* apps/backend/apps/ab_testing/services.py                                  *)

\* Bound: concurrent get_variant calls.
MaxCallers == 2

Users == {"ann@x.io", "session-1"}
Callers == 1..MaxCallers
\* Values of hash_value % 100 and of traffic_split explored.
HashSamples == {49, 50}
SplitSamples == {0, 50, 100}
AbStatuses == {"active", "paused"}
IdleCall == [user |-> "none", variant |-> "none"]

\* ABTest.assign_variant: 'B' when hash_value % 100 is below the threshold
\* (traffic_split / 100) * 100, else 'A'.
assign_variant(u) ==
    IF hash_value[u] < traffic_split THEN "B" ELSE "A"

\* What get_variant answers for a user whose VariantAssignment row exists:
\* assignment.variant.
StoredVariantRecomputed(u) == assign_variant(u)
StoredVariant(u) == assignments[u]

Returns(u, v) ==
    /\ returned' = [returned EXCEPT ![u] = @ \cup {v}]
    /\ afterChange' = [afterChange EXCEPT ![u] = IF @ = "changed" THEN "answered" ELSE @]

\* get_variant up to the point where it either returns or is about to create
\* the VariantAssignment row: no active test returns None, a stored assignment
\* is returned as it is, otherwise the variant is computed from the hash.
GetVariantLookup(c, u) ==
    /\ abCall[c] = IdleCall
    /\ IF abStatus # "active"
       THEN UNCHANGED <<abCall, returned, afterChange>>
       ELSE IF assignments[u] # "none"
            THEN /\ Returns(u, StoredVariant(u))
                 /\ UNCHANGED abCall
            ELSE /\ abCall' = [abCall EXCEPT ![c] = [user |-> u, variant |-> assign_variant(u)]]
                 /\ UNCHANGED <<returned, afterChange>>
    /\ UNCHANGED <<hash_value, traffic_split, abStatus, assignments>>

\* get_variant's VariantAssignment.objects.create and return.  The row is unique
\* per (ab_test, user_identifier): when a concurrent call has created it first,
\* the create raises IntegrityError and the call returns nothing.
GetVariantCreate(c) ==
    /\ abCall[c] # IdleCall
    /\ LET u == abCall[c].user
           v == abCall[c].variant
       IN  IF assignments[u] = "none"
           THEN /\ assignments' = [assignments EXCEPT ![u] = v]
                /\ Returns(u, v)
           ELSE UNCHANGED <<assignments, returned, afterChange>>
    /\ abCall' = [abCall EXCEPT ![c] = IdleCall]
    /\ UNCHANGED <<hash_value, traffic_split, abStatus>>

\* An admin creates the test: its uuid4 id fixes the hash of every user.
CreateTest(h, st) ==
    /\ abStatus = "absent"
    /\ hash_value' = h
    /\ abStatus' = st
    /\ UNCHANGED <<traffic_split, assignments, abCall, returned, afterChange>>

\* An admin edits the test's traffic_split.
SetTrafficSplit(s) ==
    /\ abStatus # "absent"
    /\ s # traffic_split
    /\ traffic_split' = s
    /\ afterChange' = [u \in Users |->
                          IF afterChange[u] = "no" /\ returned[u] # {} THEN "changed"
                          ELSE afterChange[u]]
    /\ UNCHANGED <<hash_value, abStatus, assignments, abCall, returned>>

\* An admin pauses or resumes the test.
SetAbStatus(st) ==
    /\ abStatus # "absent"
    /\ st # abStatus
    /\ abStatus' = st
    /\ UNCHANGED <<hash_value, traffic_split, assignments, abCall, returned, afterChange>>

AbInit ==
    /\ hash_value = [u \in Users |-> 0]
    /\ traffic_split = 50
    /\ abStatus = "absent"
    /\ assignments = [u \in Users |-> "none"]
    /\ abCall = [c \in Callers |-> IdleCall]
    /\ returned = [u \in Users |-> {}]
    /\ afterChange = [u \in Users |-> "no"]

NextAb ==
    \/ \E h \in [Users -> HashSamples], st \in AbStatuses : CreateTest(h, st)
    \/ \E c \in Callers, u \in Users : GetVariantLookup(c, u)
    \/ \E c \in Callers : GetVariantCreate(c)
    \/ \E s \in SplitSamples : SetTrafficSplit(s)
    \/ \E st \in AbStatuses : SetAbStatus(st)

-----------------------------------------------------------------------------
(* Privacy policy activation: apps/gdpr/models.py, apps/gdpr/api_views.py    *)

\* Bound: PrivacyPolicy rows.
MaxPolicies == 4

PolicyIds == 1..MaxPolicies
NoSave == [id |-> 0, is_active |-> FALSE, deactivated |-> {}]

ActivePolicies(ps) == {i \in PolicyIds : ps[i] = "active"}

\* PrivacyPolicy.objects.exclude(id=self.id).update(is_active=False)
OthersUntouched(ps, id) == ps
DeactivateOthers(ps, id) ==
    [i \in PolicyIds |-> IF i # id /\ ps[i] = "active" THEN "inactive" ELSE ps[i]]

\* PrivacyPolicy.save(): a new row (manage_privacy_policy POST, admin add) or an
\* edited one (admin change), with the is_active it is saved with.
SavePolicy(id, is_active) ==
    /\ LET before == IF is_active THEN DeactivateOthers(policies, id) ELSE policies
       IN  /\ policies' = [before EXCEPT ![id] = IF is_active THEN "active" ELSE "inactive"]
           /\ policyLast' = [id |-> id, is_active |-> is_active,
                             deactivated |-> ActivePolicies(policies) \ ({id} \cup ActivePolicies(before))]

\* An admin deletes a policy.
DeletePolicy(id) ==
    /\ policies[id] # "absent"
    /\ policies' = [policies EXCEPT ![id] = "absent"]
    /\ UNCHANGED policyLast

PolicyInit ==
    /\ policies = [i \in PolicyIds |-> "absent"]
    /\ policyLast = NoSave

NextPolicy ==
    \/ \E id \in PolicyIds, a \in BOOLEAN : SavePolicy(id, a)
    \/ \E id \in PolicyIds : DeletePolicy(id)

-----------------------------------------------------------------------------
(* send_email_task: apps/backend/apps/integrations/tasks.py                  *)

\* Bound: email tasks in the system.
MaxTasks == 2

\* Program constants: @shared_task(max_retries=3), countdown=60 * (2 ** retries).
MAX_RETRIES == 3
BASE_COUNTDOWN == 60

TaskIds == 1..MaxTasks
NoTask == [state |-> "none", retries |-> 0, delays |-> <<>>]

\* The countdown of self.retry: 60 * (2 ** self.request.retries).
CountdownLinear(retries) == BASE_COUNTDOWN * (retries + 1)
Countdown(retries) == BASE_COUNTDOWN * (2 ^ retries)

\* send_email_task.delay(...): the task is queued with request.retries = 0.
EnqueueEmail(t) ==
    /\ tasks[t].state = "none"
    /\ tasks' = [tasks EXCEPT ![t] = [state |-> "queued", retries |-> 0, delays |-> <<>>]]

\* A run of the task in which msg.send() succeeds.
RunEmailOk(t) ==
    /\ tasks[t].state = "queued"
    /\ tasks' = [tasks EXCEPT ![t].state = "sent"]

\* A run of the task in which msg.send() raises: self.retry schedules the task
\* again after the countdown, or raises for good once request.retries has
\* reached max_retries.
RunEmailFail(t) ==
    /\ tasks[t].state = "queued"
    /\ IF tasks[t].retries >= MAX_RETRIES
       THEN tasks' = [tasks EXCEPT ![t].state = "failed"]
       ELSE tasks' = [tasks EXCEPT ![t] = [state |-> "waiting",
                                            retries |-> @.retries + 1,
                                            delays |-> Append(@.delays, Countdown(@.retries))]]

\* The countdown of a scheduled retry is over: the task runs again.
CountdownOver(t) ==
    /\ tasks[t].state = "waiting"
    /\ tasks' = [tasks EXCEPT ![t].state = "queued"]

TaskInit ==
    /\ tasks = [t \in TaskIds |-> NoTask]

NextTask ==
    \/ \E t \in TaskIds : EnqueueEmail(t)
    \/ \E t \in TaskIds : RunEmailOk(t)
    \/ \E t \in TaskIds : RunEmailFail(t)
    \/ \E t \in TaskIds : CountdownOver(t)

-----------------------------------------------------------------------------
(* submit_contact_form, its rate limit: apps/contacts/views.py               *)

\* Bound: requests one IP sends within one rate-limit window.
MaxHits == 7

\* Program constant: rate='5/h'.
CONTACT_RATE == 5

IPs == {"10.0.0.1", "10.0.0.2"}
NoResp == [status |-> 0, created |-> FALSE, verdict |-> "none", effects |-> {},
           submission_id |-> 0]

\* What the body of a contact POST can be: rejected by the serializer, with the
\* honeypot field filled, failing reCAPTCHA, or acceptable.  The handler itself is
\* defined after the stored tables it writes to.
ContactBodies == {"invalid", "honeypot", "recaptcha_failed", "ok"}

\* django_ratelimit's is_ratelimited(request, group, key='ip', rate, method,
\* increment): a request of another method is neither counted nor limited;
\* otherwise the counter of (group, ip, window) is incremented when increment
\* is set, and the request is limited when the counter exceeds the rate.
\* <<limited, the counter afterwards>>
is_ratelimited(count, rate, method_counted, increment) ==
    IF ~method_counted THEN <<FALSE, count>>
    ELSE LET c == IF increment THEN count + 1 ELSE count
         IN  <<c > rate, c>>

\* The rate-limit check of submit_contact_form.
ContactLimitNoIncrement(count) == is_ratelimited(count, CONTACT_RATE, TRUE, FALSE)
ContactLimit(count) == is_ratelimited(count, CONTACT_RATE, TRUE, TRUE)

-----------------------------------------------------------------------------
(* Stored personal data and the endpoints that write it                      *)

\* Bounds: rows stored at one time, and the days the clock runs.
MaxRows == 2
MaxDay == 1

Emails == {"ann@x.io"}
\* AnonymizationService.anonymize_email(email, method='hash'):
\* user_<sha256 prefix>@anonymous.com
AnonEmail(e) == "user_5d1f@anonymous.com"

Row(e) == [email |-> e, created_at |-> now]

\* A row after AnonymizationService anonymized it: the email is replaced; a
\* Lead's first_name becomes "Anonymous User" and its phone is removed.
Anonymized(r) ==
    LET a == [r EXCEPT !.email = AnonEmail(r.email)]
    IN  IF "phone" \in DOMAIN r
        THEN [a EXCEPT !.first_name = IF @ # "" THEN "Anonymous User" ELSE @,
                       !.last_name = IF @ # "" THEN "Anonymous User" ELSE @, !.phone = ""]
        ELSE a
WithEmail(table, e) == {r \in table : r.email = e}

\* The primary key of a new row: one no stored row of the table has.
NewId(table) == CHOOSE i \in 1..(Cardinality(table) + 1) : \A r \in table : r.id # i

\* A Lead stored with the required fields only (names and email): the optional
\* fields are blank and lead_score is its default, 0.
LeadRow(e) ==
    [id |-> NewId(leads), email |-> e, created_at |-> now, first_name |-> "Jane",
     last_name |-> "Doe", phone |-> "", company |-> "", job_title |-> "", industry |-> "",
     company_size |-> "", lead_score |-> 0]

\* Event.objects.create(event_name=..., user_identifier=lead.email, ...)
EventRow(e, event_name) ==
    [id |-> NewId(events), email |-> e, created_at |-> now, event_name |-> event_name]

TotalRows ==
    Cardinality(contacts) + Cardinality(waitlist) + Cardinality(leads)
    + Cardinality(newsletter) + Cardinality(events) + Cardinality(pageviews)
    + Cardinality(conversions) + Cardinality({u \in Users : assignments[u] # "none"})

\* ABTestingService.get_variant run to its end by one request: <<the variant
\* returned ("none" for None), the VariantAssignment rows afterwards>>.
get_variant(u) ==
    IF abStatus # "active" THEN <<"none", assignments>>
    ELSE IF assignments[u] # "none" THEN <<StoredVariant(u), assignments>>
    ELSE <<assign_variant(u), [assignments EXCEPT ![u] = assign_variant(u)]>>

\* join_waitlist for a request the 'waitlist-join' limit lets through: with an
\* ab_test_name the variant is looked up or assigned for the email, the entry is
\* stored, and a conversion is tracked when a variant was returned.
join_waitlist(e, with_test) ==
    /\ TotalRows < MaxRows
    /\ WithEmail(waitlist, e) = {}
    /\ waitlist' = waitlist \cup {Row(e)}
    /\ IF with_test
       THEN LET gv == get_variant(e)
            IN  /\ assignments' = gv[2]
                /\ IF gv[1] # "none"
                   THEN /\ Returns(e, gv[1])
                        /\ conversions' = conversions \cup {e}
                   ELSE UNCHANGED <<returned, afterChange, conversions>>
       ELSE UNCHANGED <<assignments, returned, afterChange, conversions>>
    /\ UNCHANGED <<hash_value, traffic_split, abStatus, abCall>>
    /\ UNCHANGED <<now, contacts, leads, newsletter, events, pageviews, consents, audits>>

\* NewsletterSubscription.save on a first save without a token:
\* verification_token = secrets.token_urlsafe(32), one no stored row has.
NewToken ==
    CHOOSE k \in 1..(Cardinality(newsletter) + 1) :
        \A r \in newsletter : r.verification_token # k

\* NewsletterSubscription.objects.create(..., subscription_status='subscribed',
\* ...): is_verified keeps its default False, save() generates the token.
NewsletterRow(e) ==
    [email |-> e, created_at |-> now, subscription_status |-> "subscribed",
     is_verified |-> FALSE, verification_token |-> NewToken]

\* subscribe_newsletter for a valid body: a new address gets a subscription
\* row and the verification email is sent. (An address that has a row is
\* answered 400 by the serializer, whose email field is unique, and nothing
\* changes.)
subscribe_newsletter(e) ==
    /\ TotalRows < MaxRows
    /\ WithEmail(newsletter, e) = {}
    /\ newsletter' = newsletter \cup {NewsletterRow(e)}
    /\ UNCHANGED <<now, contacts, waitlist, leads, events, pageviews, conversions,
                   consents, audits>>

\* A new ContactSubmission: status 'new', is_spam False.
ContactRow(e) ==
    [id |-> NewId(contacts), email |-> e, created_at |-> now, status |-> "new",
     is_spam |-> FALSE]

\* A ContactSubmission row is stored (Django admin; ContactSubmissionAdmin).
AdminAddContact(e) ==
    /\ TotalRows < MaxRows
    /\ contacts' = contacts \cup {ContactRow(e)}
    /\ UNCHANGED <<now, waitlist, leads, newsletter, events, pageviews, conversions,
                   consents, audits>>

\* A Lead row is stored (Django admin; LeadAdmin).
AdminAddLead(e) ==
    /\ TotalRows < MaxRows
    /\ leads' = leads \cup {LeadRow(e)}
    /\ UNCHANGED <<now, contacts, waitlist, newsletter, events, pageviews, conversions,
                   consents, audits>>

\* Program constants of the lead scoring (leads/api_views.py).
MAX_LEAD_SCORE == 100
MAX_ENGAGEMENT == 30
MAX_EVENT_POINTS == 20

EngagementEvents == {"form_submit", "download", "video_play", "demo_request"}
EventNames == {"page_scroll", "download"}

\* calculate_engagement_score(lead): 2 points per event of lead.email up to 20,
\* 5 per engagement event, 10 per Conversion of the lead, 30 at most.
calculate_engagement_score(lead, evs, convs) ==
    LET mine == WithEmail(evs, lead.email)
    IN  Min(MAX_ENGAGEMENT,
            Min(MAX_EVENT_POINTS, Cardinality(mine) * 2)
            + Cardinality({ev \in mine : ev.event_name \in EngagementEvents}) * 5
            + convs[lead.id] * 10)

\* The clamp of a lead score: min(100, score).
CapScoreNone(score) == score
CapScore(score) == Min(MAX_LEAD_SCORE, score)

\* track_lead_event for a valid body: an Event row with user_identifier =
\* lead.email is stored, then lead.lead_score = min(100, lead.lead_score +
\* engagement_score) is saved.
track_lead_event(lead, event_name) ==
    /\ TotalRows < MaxRows
    /\ lead \in leads
    /\ events' = events \cup {EventRow(lead.email, event_name)}
    /\ leads' = (leads \ {lead}) \cup
                 {[lead EXCEPT !.lead_score =
                      CapScore(@ + calculate_engagement_score(lead, events', leadConversions))]}
    /\ UNCHANGED <<now, contacts, waitlist, newsletter, pageviews, conversions,
                   consents, audits>>

\* The analytics middleware stores a PageView row.
TrackPageView ==
    /\ TotalRows < MaxRows
    /\ pageviews' = pageviews \cup {Row("")}
    /\ UNCHANGED <<now, contacts, waitlist, leads, newsletter, events, conversions,
                   consents, audits>>

\* manage_consent: consent is given or withdrawn for the email.
manage_consent(e, given) ==
    /\ consents' = [consents EXCEPT ![e] = IF given THEN "given" ELSE "withdrawn"]
    /\ UNCHANGED <<now, tables, conversions, audits>>

\* A day passes.
Tick ==
    /\ now < MaxDay
    /\ now' = now + 1
    /\ UNCHANGED <<tables, conversions, consents, audits>>

StoreInit ==
    /\ now = 0
    /\ contacts = {}
    /\ waitlist = {}
    /\ leads = {}
    /\ newsletter = {}
    /\ events = {}
    /\ pageviews = {}
    /\ conversions = {}
    /\ consents = [e \in Emails |-> "none"]
    /\ audits = {}

-----------------------------------------------------------------------------
(* submit_contact_form, the handler: apps/contacts/views.py                  *)

\* The names submit_contact_form can resolve when it builds the submission row:
\* what the module imports or defines, and what the function has assigned by
\* then.
ModuleNames ==
    {"timezone", "status", "Response", "is_ratelimited", "settings", "ContactSubmission",
     "ContactSubmissionCreateSerializer", "detect_spam", "verify_recaptcha",
     "CheckSubmissionSpam", "email_service", "crm_service", "get_user_language",
     "activate_language", "get_client_ip"}
LocalNames ==
    {"request", "user_language", "serializer", "honeypot_value", "recaptcha_token",
     "recaptcha_secret", "success", "score", "error", "ip_address", "user_agent",
     "referrer", "spam_checker", "is_spam", "spam_score", "spam_reasons", "spam_logs"}

\* The names read by the arguments of ContactSubmission.objects.create(...).
CreateNames ==
    {"ContactSubmission", "serializer", "ip_address", "user_agent", "referrer",
     "spam_score", "is_spam", "ab_test_name", "ab_test_variant", "timezone"}

\* The names among them that nothing binds: reading one raises NameError.
Unbound == CreateNames \ (ModuleNames \cup LocalNames)

\* What submit_contact_form sets off once the row is stored: nothing for spam;
\* otherwise the confirmation email, the CRM sync, the webhook, and the A/B
\* conversion when ab_test_name and ab_test_variant are set (ab).
SubmissionEffects(is_spam, ab) ==
    IF is_spam THEN {}
    ELSE {"confirmation_email", "crm_sync", "webhook"}
         \cup (IF ab THEN {"ab_conversion"} ELSE {})

\* submit_contact_form.  Past the rate limit, an invalid body, a filled honeypot
\* and a failed reCAPTCHA are answered 400.  An acceptable body is classified by
\* CheckSubmissionSpam.calculate_spam_score (is_spam) and reaches
\* ContactSubmission.objects.create(..., ab_test_name=ab_test_name, ...): when a
\* name read there is unbound the NameError ends the request with 500 before
\* any row is stored; otherwise the row is stored with the verdict, the
\* follow-ups of a legitimate submission are set off and the answer is 201.
submit_contact_form(ip, body, is_spam) ==
    /\ contactHits[ip] < MaxHits
    /\ LET rl == ContactLimit(contactHits[ip])
           verdict == IF is_spam THEN "spam" ELSE "ham"
       IN  /\ contactHits' = [contactHits EXCEPT ![ip] = rl[2]]
           /\ IF rl[1]
              THEN /\ contactResp' = [contactResp EXCEPT ![ip] =
                          [NoResp EXCEPT !.status = 429]]
                   /\ UNCHANGED <<contactPassed, contacts>>
              ELSE /\ contactPassed' = [contactPassed EXCEPT ![ip] = @ + 1]
                   /\ IF body # "ok"
                      THEN /\ contactResp' = [contactResp EXCEPT ![ip] =
                                  [NoResp EXCEPT !.status = 400]]
                           /\ UNCHANGED contacts
                      ELSE IF Unbound # {}
                      THEN /\ contactResp' = [contactResp EXCEPT ![ip] =
                                  [NoResp EXCEPT !.status = 500, !.verdict = verdict]]
                           /\ UNCHANGED contacts
                      ELSE \E e \in Emails, ab \in BOOLEAN :
                             LET row == [ContactRow(e) EXCEPT !.is_spam = is_spam]
                             IN  /\ TotalRows < MaxRows
                                 /\ contacts' = contacts \cup {row}
                                 /\ contactResp' = [contactResp EXCEPT ![ip] =
                                        [status |-> 201, created |-> TRUE,
                                         verdict |-> verdict,
                                         effects |-> SubmissionEffects(is_spam, ab),
                                         submission_id |-> row.id]]

\* The rate-limit window of an IP ends: its counter starts again.
ContactWindowOver(ip) ==
    /\ contactHits[ip] > 0
    /\ contactHits' = [contactHits EXCEPT ![ip] = 0]
    /\ contactPassed' = [contactPassed EXCEPT ![ip] = 0]
    /\ UNCHANGED <<contactResp, contacts>>

ContactInit ==
    /\ contactHits = [ip \in IPs |-> 0]
    /\ contactPassed = [ip \in IPs |-> 0]
    /\ contactResp = [ip \in IPs |-> NoResp]

NextContact ==
    \/ \E ip \in IPs, body \in ContactBodies, is_spam \in BOOLEAN :
           submit_contact_form(ip, body, is_spam)
    \/ \E ip \in IPs : ContactWindowOver(ip)

-----------------------------------------------------------------------------
(* GDPR deletion: apps/gdpr/api_views.py, apps/gdpr/services.py               *)

\* Bound: delete requests one IP sends within one rate-limit window.
MaxGdprHits == 4

\* Program constant: rate='3/h'.
GDPR_RATE == 3

GdprIPs == {"10.0.0.1"}
Methods == {"DELETE", "POST"}

\* A table after GDPRService.delete_user_data handled it for the email: the
\* rows of the email are deleted, or anonymized in place.
Purge(table, e, anonymize) ==
    IF anonymize
    THEN {IF r.email = e THEN Anonymized(r) ELSE r : r \in table}
    ELSE {r \in table : r.email # e}

\* The rate-limit check of delete_user_data: is_ratelimited(..., rate='3/h',
\* method='DELETE', increment=True).
GdprLimit(count, method) == is_ratelimited(count, GDPR_RATE, method = "DELETE", TRUE)

\* delete_user_data's confirmation check: the request is turned away with 400
\* when confirmation is false and no confirmation_token came with it.
TurnedAway(confirmation, has_token) == ~confirmation /\ ~has_token

NoAnswer == [method |-> "none", email |-> "none", confirmation |-> FALSE,
             anonymize |-> FALSE, status |-> 0]
Answer(method, e, confirmation, anonymize, status) ==
    [method |-> method, email |-> e, confirmation |-> confirmation,
     anonymize |-> anonymize, status |-> status]

\* delete_user_data (the endpoint and GDPRService.delete_user_data).  A POST
\* whose body the serializer rejects is answered 400.
delete_user_data(ip, method, e, valid, confirmation, has_token, anonymize) ==
    /\ gdprHits[ip] < MaxGdprHits
    /\ gdprPassed[ip] < MaxGdprHits
    /\ LET rl == GdprLimit(gdprHits[ip], method)
       IN  /\ gdprHits' = [gdprHits EXCEPT ![ip] = rl[2]]
           /\ IF rl[1]
              THEN /\ gdprResp' = Answer(method, e, confirmation, anonymize, 429)
                   /\ UNCHANGED <<gdprPassed, storeVars>>
              ELSE /\ gdprPassed' = [gdprPassed EXCEPT ![ip] = @ + 1]
                   /\ IF (method = "POST" /\ ~valid) \/ TurnedAway(confirmation, has_token)
                      THEN /\ gdprResp' = Answer(method, e, confirmation, anonymize, 400)
                           /\ UNCHANGED storeVars
                      ELSE /\ gdprResp' = Answer(method, e, confirmation, anonymize, 200)
                           /\ contacts' = Purge(contacts, e, anonymize)
                           /\ waitlist' = Purge(waitlist, e, anonymize)
                           /\ leads' = Purge(leads, e, anonymize)
                           /\ newsletter' = Purge(newsletter, e, anonymize)
                           /\ consents' = [consents EXCEPT ![e] =
                                             IF @ = "given" THEN "withdrawn" ELSE @]
                           /\ audits' = audits \cup
                                 {[email |-> e,
                                   deletion_type |-> IF anonymize THEN "anonymize" ELSE "full"]}
                           /\ UNCHANGED <<now, events, pageviews, conversions>>

\* The rate-limit window of an IP ends.
GdprWindowOver(ip) ==
    /\ gdprHits[ip] > 0 \/ gdprPassed[ip] > 0
    /\ gdprHits' = [gdprHits EXCEPT ![ip] = 0]
    /\ gdprPassed' = [gdprPassed EXCEPT ![ip] = 0]
    /\ UNCHANGED gdprResp

GdprInit ==
    /\ gdprHits = [ip \in GdprIPs |-> 0]
    /\ gdprPassed = [ip \in GdprIPs |-> 0]
    /\ gdprResp = NoAnswer

NextGdpr ==
    \/ \E h \in [Users -> {49}] : CreateTest(h, "active") /\ UNCHANGED <<storeVars, gdprVars>>
    \/ \E e \in Emails, t \in BOOLEAN : join_waitlist(e, t) /\ UNCHANGED gdprVars
    \/ \E e \in Emails : subscribe_newsletter(e) /\ UNCHANGED <<abVars, gdprVars>>
    \/ \E e \in Emails : AdminAddContact(e) /\ UNCHANGED <<abVars, gdprVars>>
    \/ \E e \in Emails : AdminAddLead(e) /\ UNCHANGED <<abVars, gdprVars>>
    \/ \E l \in leads, n \in EventNames : track_lead_event(l, n) /\ UNCHANGED <<abVars, gdprVars>>
    \/ \E e \in Emails, g \in BOOLEAN : manage_consent(e, g) /\ UNCHANGED <<abVars, gdprVars>>
    \/ \E ip \in GdprIPs, m \in Methods, e \in Emails, v, c, k, a \in BOOLEAN :
          delete_user_data(ip, m, e, v, c, k, a) /\ UNCHANGED abVars
    \/ \E ip \in GdprIPs : GdprWindowOver(ip) /\ UNCHANGED <<abVars, storeVars>>

-----------------------------------------------------------------------------
(* Retention: apps/gdpr/models.py, apps/gdpr/services.py                     *)

\* Bounds: DataRetentionPolicy rows at one time, and the retention_days tried.
MaxRetentionPolicies == 1
MaxRetentionDays == 1

\* The data types apply_retention_policies handles.
DataTypes == {"contact", "waitlist", "lead", "analytics_pageview", "analytics_event"}
NoPolicy == [retention_days |-> -1, auto_delete |-> FALSE, anonymize_instead |-> FALSE,
             is_active |-> FALSE]
RetentionPolicies ==
    [retention_days : 0..MaxRetentionDays, auto_delete : BOOLEAN,
     anonymize_instead : BOOLEAN, is_active : BOOLEAN]
NoRetentionLog == [days |-> [t \in DataTypes |-> -1], touched |-> [t \in DataTypes |-> 0]]

TableOf(t) ==
    CASE t = "contact" -> contacts
      [] t = "waitlist" -> waitlist
      [] t = "lead" -> leads
      [] t = "analytics_pageview" -> pageviews
      [] t = "analytics_event" -> events

\* cutoff_date = timezone.now() - timedelta(days=policy.retention_days)
Cutoff(policy) == now - policy.retention_days

\* The rows of a table a policy selects: created_at < cutoff_date.
Expired(table, policy) == {r \in table : r.created_at < Cutoff(policy)}

\* What an active policy does to the rows it selects: the three record types
\* with an email are anonymized when anonymize_instead is set, else deleted when
\* auto_delete is set; page views and events are deleted when auto_delete is set.
Retain(t, table, policy) ==
    LET old == Expired(table, policy)
    IN  IF t \in {"contact", "waitlist", "lead"} /\ policy.anonymize_instead
        THEN (table \ old) \cup {Anonymized(r) : r \in old}
        ELSE IF policy.auto_delete THEN table \ old
        ELSE table

Applied(t) == retention[t] # NoPolicy /\ retention[t].is_active
After(t) == IF Applied(t) THEN Retain(t, TableOf(t), retention[t]) ELSE TableOf(t)

\* A DataRetentionPolicy row is saved (manage_retention_policies POST, admin).
SaveRetentionPolicy(t, policy) ==
    /\ retention[t] # NoPolicy
       \/ Cardinality({x \in DataTypes : retention[x] # NoPolicy}) < MaxRetentionPolicies
    /\ retention' = [retention EXCEPT ![t] = policy]
    /\ UNCHANGED retentionLog

\* An admin deletes a DataRetentionPolicy row.
DeleteRetentionPolicy(t) ==
    /\ retention[t] # NoPolicy
    /\ retention' = [retention EXCEPT ![t] = NoPolicy]
    /\ UNCHANGED retentionLog

\* GDPRService.apply_retention_policies: every active policy is applied to the
\* table of its data type.
apply_retention_policies ==
    /\ contacts' = After("contact")
    /\ waitlist' = After("waitlist")
    /\ leads' = After("lead")
    /\ pageviews' = After("analytics_pageview")
    /\ events' = After("analytics_event")
    /\ retentionLog' =
          [days |-> [t \in DataTypes |-> IF Applied(t) THEN retention[t].retention_days ELSE -1],
           touched |-> [t \in DataTypes |-> Cardinality(TableOf(t) \ After(t))]]
    /\ UNCHANGED <<now, newsletter, conversions, consents, audits, retention>>

RetentionInit ==
    /\ retention = [t \in DataTypes |-> NoPolicy]
    /\ retentionLog = NoRetentionLog

NextRetention ==
    \/ \E e \in Emails : join_waitlist(e, FALSE) /\ UNCHANGED retentionVars
    \/ \E e \in Emails : AdminAddContact(e) /\ UNCHANGED <<abVars, retentionVars>>
    \/ \E e \in Emails : AdminAddLead(e) /\ UNCHANGED <<abVars, retentionVars>>
    \/ \E l \in leads, n \in EventNames : track_lead_event(l, n) /\ UNCHANGED <<abVars, retentionVars>>
    \/ TrackPageView /\ UNCHANGED <<abVars, retentionVars>>
    \/ Tick /\ UNCHANGED <<abVars, retentionVars>>
    \/ \E t \in DataTypes, p \in RetentionPolicies :
          SaveRetentionPolicy(t, p) /\ UNCHANGED <<abVars, storeVars>>
    \/ \E t \in DataTypes : DeleteRetentionPolicy(t) /\ UNCHANGED <<abVars, storeVars>>
    \/ apply_retention_policies /\ UNCHANGED abVars

-----------------------------------------------------------------------------
(* Webhooks: apps/webhooks/models.py, apps/backend/apps/webhooks/services.py  *)

\* Bounds: WebhookEvent rows, and the retry_attempts a config is saved with.
MaxEvents == 6
MaxRetryAttempts == 3

\* What requests.post does: a 2xx response, another response, a timeout or a
\* connection error.
Outcomes == {"2xx", "error_status", "timeout", "connection_error"}

\* WebhookEvent.mark_as_sent
mark_as_sent(ev) == [ev EXCEPT !.status = "sent"]

\* WebhookEvent.mark_as_failed: attempt_count += 1; 'retrying' with next_retry_at
\* = now + retry_delay while attempt_count < retry_attempts, else 'failed'.
mark_as_failed(ev) ==
    [ev EXCEPT !.attempt_count = @ + 1,
               !.status = IF ev.attempt_count + 1 < retry_attempts THEN "retrying" ELSE "failed",
               !.due = FALSE]

\* The row WebhookEvent.objects.create(..., status='pending') stores.
PendingEvent(origin) ==
    [status |-> "pending", attempt_count |-> 0, due |-> FALSE, origin |-> origin,
     posted |-> TRUE, outcome |-> "none"]

\* WebhookService._send_webhook_request: a new pending row is stored and the
\* request is sent.  The row is marked sent on 2xx and failed on another
\* response.  On a timeout or a connection error the handler calls
\* mark_as_failed("...", error_message="..."), which passes error_message twice:
\* the TypeError leaves the row pending and leaves the function.
\* The field outcome of a row records what became of the request sent for it.
\* <<the rows afterwards, an exception left the function>>
SendWebhookRequest(evs, origin, outcome) ==
    LET ev == [PendingEvent(origin) EXCEPT !.outcome = outcome]
    IN  CASE outcome = "2xx" -> <<Append(evs, mark_as_sent(ev)), FALSE>>
          [] outcome = "error_status" -> <<Append(evs, mark_as_failed(ev)), FALSE>>
          [] OTHER -> <<Append(evs, ev), TRUE>>

\* WebhookService._create_webhook_event(config, event_type, payload, 'failed', ...)
FailedRecord(origin) ==
    [status |-> "failed", attempt_count |-> 0, due |-> FALSE, origin |-> origin,
     posted |-> FALSE, outcome |-> "none"]

\* A WebhookConfig is saved (admin).
SaveWebhookConfig(r) ==
    /\ retry_attempts = 0
    /\ retry_attempts' = r
    /\ UNCHANGED webhookEvents

\* WebhookService.send_webhook for the one active config: the request is sent,
\* and an exception leaving _send_webhook_request stores a 'failed' record.
send_webhook(outcome) ==
    /\ retry_attempts > 0
    /\ Len(webhookEvents) + 2 <= MaxEvents
    /\ LET sent == SendWebhookRequest(webhookEvents, Len(webhookEvents) + 1, outcome)
       IN  webhookEvents' = IF sent[2]
                            THEN Append(sent[1], FailedRecord(Len(webhookEvents) + 1))
                            ELSE sent[1]
    /\ UNCHANGED retry_attempts

\* The rows retry_failed_webhooks selects: status='retrying', next_retry_at <= now.
DueEvents == {i \in 1..Len(webhookEvents) :
                 webhookEvents[i].status = "retrying" /\ webhookEvents[i].due}

\* The loop of retry_failed_webhooks from row i on: for every selected row,
\* _send_webhook_request(event.webhook_config, event.payload); an exception is
\* logged.  The selected row itself is not written.
RECURSIVE RetryLoop(_, _, _)
RetryLoop(evs, i, outcome) ==
    IF i > Len(webhookEvents) THEN evs
    ELSE IF i \in DueEvents
         THEN RetryLoop(SendWebhookRequest(evs, webhookEvents[i].origin, outcome[i])[1],
                        i + 1, outcome)
         ELSE RetryLoop(evs, i + 1, outcome)

\* WebhookService.retry_failed_webhooks
retry_failed_webhooks(outcome) ==
    /\ DueEvents # {}
    /\ Len(webhookEvents) + Cardinality(DueEvents) <= MaxEvents
    /\ webhookEvents' = RetryLoop(webhookEvents, 1, outcome)
    /\ UNCHANGED retry_attempts

\* retry_delay seconds pass: the next_retry_at of every row is reached.
RetryDelayOver ==
    /\ \E i \in 1..Len(webhookEvents) :
          webhookEvents[i].status = "retrying" /\ ~webhookEvents[i].due
    /\ webhookEvents' = [i \in 1..Len(webhookEvents) |->
                            IF webhookEvents[i].status = "retrying"
                            THEN [webhookEvents[i] EXCEPT !.due = TRUE]
                            ELSE webhookEvents[i]]
    /\ UNCHANGED retry_attempts

\* The requests sent for the delivery that began with row o.
Posts(o) == {i \in 1..Len(webhookEvents) :
                webhookEvents[i].origin = o /\ webhookEvents[i].posted}

WebhookInit ==
    /\ retry_attempts = 0
    /\ webhookEvents = <<>>

NextWebhook ==
    \/ \E r \in 1..MaxRetryAttempts : SaveWebhookConfig(r)
    \/ \E o \in Outcomes : send_webhook(o)
    \/ \E f \in [DueEvents -> Outcomes] : retry_failed_webhooks(f)
    \/ RetryDelayOver

-----------------------------------------------------------------------------
\* Lead capture and scoring (leads/api_views.py, leads/models.py)

MaxLeadHits == 11
MaxCaptures == 1
LEAD_RATE == 10
LeadIPs == {"10.0.0.7"}

JobTitles == {"", "CEO", "Office Manager", "Engineer", "Intern"}
SeniorTitles == {"CEO"}
ManagerTitles == {"Office Manager"}
TechnicalTitles == {"Engineer"}
HighValueIndustries == {"technology", "finance", "healthcare"}

\* The request bodies of capture_lead: one the serializer rejects, one with the
\* required fields only, one with every field of a senior contact.
LeadBodies ==
    {[valid |-> p[1], email |-> e, first_name |-> p[2], last_name |-> p[3], phone |-> p[4],
      company |-> p[5], job_title |-> p[6], industry |-> p[7], company_size |-> p[8]] :
        e \in Emails,
        p \in {<<FALSE, "", "", "", "", "", "", "">>,
               <<TRUE, "Ann", "Lee", "", "", "", "", "">>,
               <<TRUE, "Ann", "Lee", "555", "Acme", "CEO", "technology", "1000+">>}}

\* The bodies of an admin update (LeadUpdateSerializer, partial): the fields
\* the request names, with their values.
LeadPatches ==
    {[phone |-> "555"],
     [job_title |-> "Engineer", company_size |-> "11-50"]}

NoLeadResp == [ip |-> "none", body |-> [valid |-> FALSE, email |-> "none"], status |-> 0]

CompanySizeScore(size) ==
    CASE size = "" -> 0
      [] size = "1000+" -> 30
      [] size = "201-1000" -> 25
      [] size = "51-200" -> 20
      [] size = "11-50" -> 15
      [] size = "1-10" -> 10
      [] OTHER -> 5

JobTitleScore(title) ==
    CASE title = "" -> 0
      [] title \in SeniorTitles -> 25
      [] title \in ManagerTitles -> 15
      [] title \in TechnicalTitles -> 10
      [] OTHER -> 5

IndustryScore(industry) ==
    CASE industry = "" -> 0
      [] industry \in HighValueIndustries -> 10
      [] OTHER -> 5

\* How many of the eight profile fields of the lead are filled in.
fields_completed(lead) ==
    Cardinality({f \in {"first_name", "last_name", "email", "phone", "company",
                        "job_title", "industry", "company_size"} : lead[f] # ""})

\* calculate_lead_score(lead): company size, role, completeness (20 points for
\* eight fields; int() drops the fraction of the sum), engagement and industry,
\* 100 at most.
calculate_lead_score(lead, evs, convs) ==
    CapScore(CompanySizeScore(lead.company_size)
             + JobTitleScore(lead.job_title)
             + ((fields_completed(lead) * 20) \div 8)
             + calculate_engagement_score(lead, evs, convs)
             + IndustryScore(lead.industry))

\* Lead.calculate_lead_score(): 10 for a company, 10 for a job title, 5 for a
\* phone, 5 for an industry, 100 at most.
LeadModelScore(lead) ==
    CapScore((IF lead.company # "" THEN 10 ELSE 0) + (IF lead.job_title # "" THEN 10 ELSE 0)
             + (IF lead.phone # "" THEN 5 ELSE 0) + (IF lead.industry # "" THEN 5 ELSE 0))

\* Lead.objects.filter(email=email).first() under the ordering -created_at:
\* a lead of that email than which none is newer (the database picks among
\* leads created at the same time).
ExistingLeadNone(email) == {}
ExistingLead(email) ==
    {l \in WithEmail(leads, email) :
        \A o \in WithEmail(leads, email) : o.created_at <= l.created_at}

\* setattr(existing_lead, key, value) for every non-empty validated field.
SetFields(lead, body) ==
    [f \in DOMAIN lead |->
        IF f \in DOMAIN body /\ f # "valid" /\ body[f] # "" THEN body[f] ELSE lead[f]]

\* capture_lead, one POST from ip. No rate limit is applied. An invalid body
\* is answered 400. With no lead of that email, Lead.objects.create is called
\* with the undefined names ab_test_name and ab_test_variant: NameError, 500,
\* nothing stored. With a lead of that email, the lead is updated, scored and
\* saved and a Conversion is recorded for it; then `if ab_test_name and
\* ab_test_variant` raises NameError: 500, the writes stay.
capture_lead(ip, body) ==
    /\ leadHits[ip] < MaxLeadHits
    /\ leadHits' = [leadHits EXCEPT ![ip] = @ + 1]
    /\ IF ~body.valid
       THEN /\ leadResp' = [ip |-> ip, body |-> body, status |-> 400]
            /\ UNCHANGED <<leads, leadConversions>>
       ELSE IF ExistingLead(body.email) = {}
       THEN /\ leadResp' = [ip |-> ip, body |-> body, status |-> 500]
            /\ UNCHANGED <<leads, leadConversions>>
       ELSE \E existing_lead \in ExistingLead(body.email) :
                LET lead == SetFields(existing_lead, body)
                    lead_score == calculate_lead_score(lead, events, leadConversions)
                IN  /\ leads' = (leads \ {existing_lead}) \cup
                                    {[lead EXCEPT !.lead_score = lead_score]}
                    /\ leadConversions' = [leadConversions EXCEPT ![lead.id] = @ + 1]
                    /\ leadResp' = [ip |-> ip, body |-> body, status |-> 500]
    /\ UNCHANGED <<now, contacts, waitlist, newsletter, events, pageviews, conversions,
                   consents, audits>>

\* LeadViewSet.update (admin, partial): when the request names company,
\* job_title, industry or company_size the score is recalculated from the
\* instance as it is before the new values are applied; serializer.save()
\* then applies them and saves.
LeadUpdate(lead, patch) ==
    /\ lead \in leads
    /\ LET score == IF DOMAIN patch \cap {"company", "job_title", "industry",
                                          "company_size"} # {}
                    THEN calculate_lead_score(lead, events, leadConversions)
                    ELSE lead.lead_score
           saved == [f \in DOMAIN lead |-> IF f \in DOMAIN patch THEN patch[f] ELSE lead[f]]
       IN  leads' = (leads \ {lead}) \cup {[saved EXCEPT !.lead_score = score]}
    /\ UNCHANGED <<now, contacts, waitlist, newsletter, events, pageviews, conversions,
                   consents, audits, leadVars>>

\* lead.calculate_lead_score(), then save.
LeadRecalculate(lead) ==
    /\ lead \in leads
    /\ leads' = (leads \ {lead}) \cup {[lead EXCEPT !.lead_score = LeadModelScore(lead)]}
    /\ UNCHANGED <<now, contacts, waitlist, newsletter, events, pageviews, conversions,
                   consents, audits, leadVars>>

LeadInit ==
    /\ leadConversions = [i \in 1..(MaxRows + 1) |-> 0]
    /\ leadHits = [ip \in LeadIPs |-> 0]
    /\ leadResp = NoLeadResp

\* One IP sending capture requests for leads the admin created.
NextLeadRate ==
    \/ \E e \in Emails : AdminAddLead(e) /\ UNCHANGED leadVars
    \/ \E ip \in LeadIPs, body \in LeadBodies : capture_lead(ip, body)

NextLead ==
    \/ \E e \in Emails : AdminAddLead(e) /\ UNCHANGED leadVars
    \/ \E ip \in LeadIPs :
          leadHits[ip] < MaxCaptures /\ \E body \in LeadBodies : capture_lead(ip, body)
    \/ \E l \in leads, n \in EventNames : track_lead_event(l, n) /\ UNCHANGED leadVars
    \/ \E l \in leads, p \in LeadPatches : LeadUpdate(l, p)
    \/ \E l \in leads : LeadRecalculate(l)

-----------------------------------------------------------------------------
\* CRM sync task (integrations/tasks.py: sync_to_crm_task; crm_service.py)

MaxCrmTasks == 2
CrmTaskIds == 1..MaxCrmTasks

\* What one run of the task meets: the CRM accepts the contact; no provider is
\* configured; the provider call raises (the CRM is down, rejects the request,
\* times out); the entity row no longer exists.
CrmOutcomes == {"synced", "no_provider", "crm_error", "entity_missing"}

NoCrmTask == [state |-> "none", retries |-> 0, delays |-> <<>>, last |-> "none",
              result |-> "none"]

\* crm_service.sync_contact_submission / sync_waitlist_entry / sync_lead with
\* immediate=True: True when the provider stored the contact; False with no
\* provider; an exception of the provider is caught and logged inside the
\* method, which then returns False. It raises nothing.
sync_entity(outcome) ==
    IF outcome = "synced" THEN "True" ELSE "False"

\* sync_*(entity, immediate=False): sync_to_crm_task.delay(entity_type, id).
EnqueueCrmSync(t) ==
    /\ crmTasks[t].state = "none"
    /\ crmTasks' = [crmTasks EXCEPT ![t].state = "queued"]

\* One run of sync_to_crm_task. Entity.objects.get raising DoesNotExist is
\* the only exception that reaches the except clause: self.retry with
\* countdown 60 * 2 ** retries, and once retries has reached max_retries
\* the exception is raised instead and the task has failed. Otherwise the
\* task returns what sync_* returned and is done.
sync_to_crm_task(t, outcome) ==
    /\ crmTasks[t].state = "queued"
    /\ crmTasks' =
          [crmTasks EXCEPT ![t] =
              IF outcome = "entity_missing"
              THEN IF @.retries < MAX_RETRIES
                   THEN [@ EXCEPT !.state = "retry_wait", !.retries = @ + 1,
                                  !.delays = Append(@, Countdown(crmTasks[t].retries)),
                                  !.last = outcome]
                   ELSE [@ EXCEPT !.state = "failed", !.last = outcome]
              ELSE [@ EXCEPT !.state = "done", !.last = outcome,
                             !.result = sync_entity(outcome)]]

\* The countdown of a retry is over: the task is run again.
CrmCountdownOver(t) ==
    /\ crmTasks[t].state = "retry_wait"
    /\ crmTasks' = [crmTasks EXCEPT ![t].state = "queued"]

CrmInit ==
    crmTasks = [t \in CrmTaskIds |-> NoCrmTask]

NextCrm ==
    \/ \E t \in CrmTaskIds : EnqueueCrmSync(t)
    \/ \E t \in CrmTaskIds, o \in CrmOutcomes : sync_to_crm_task(t, o)
    \/ \E t \in CrmTaskIds : CrmCountdownOver(t)

-----------------------------------------------------------------------------
\* Newsletter subscription (newsletter/api_views.py, newsletter/models.py)

Subscribers == {"ann@x.io", "bob@x.io"}
\* The tokens a request may carry: those of stored rows and one of no row (0).
Tokens == 0..MaxRows

\* NewsletterSubscription.verify(): is_verified = True (the token is kept).
verify(r) == [r EXCEPT !.is_verified = TRUE]

\* NewsletterSubscription.unsubscribe()
unsubscribe(r) == [r EXCEPT !.subscription_status = "unsubscribed"]

\* verify_newsletter_subscription: the row with that verification_token is
\* verified; an unknown token is answered 400.
verify_newsletter_subscription(token) ==
    /\ \E r \in newsletter :
          /\ r.verification_token = token
          /\ newsletter' = (newsletter \ {r}) \cup {verify(r)}
    /\ UNCHANGED <<now, contacts, waitlist, leads, events, pageviews, conversions,
                   consents, audits>>

\* unsubscribe_newsletter by email: the row of that email is unsubscribed; an
\* unknown email is answered 404.
unsubscribe_newsletter(e) ==
    /\ \E r \in WithEmail(newsletter, e) :
          newsletter' = (newsletter \ {r}) \cup {unsubscribe(r)}
    /\ UNCHANGED <<now, contacts, waitlist, leads, events, pageviews, conversions,
                   consents, audits>>

\* A subscription row is deleted in the admin.
AdminDeleteSubscription(e) ==
    /\ \E r \in WithEmail(newsletter, e) : newsletter' = newsletter \ {r}
    /\ UNCHANGED <<now, contacts, waitlist, leads, events, pageviews, conversions,
                   consents, audits>>

NextNewsletter ==
    \/ \E e \in Subscribers : subscribe_newsletter(e)
    \/ \E token \in Tokens : verify_newsletter_subscription(token)
    \/ \E e \in Subscribers : unsubscribe_newsletter(e)
    \/ \E e \in Subscribers : AdminDeleteSubscription(e)
    \/ Tick

-----------------------------------------------------------------------------
\* Contact submissions API for admins (contacts/views.py: ContactSubmissionViewSet)

ContactIds == 1..(MaxRows + 1)
ContactStatuses == {"new", "contacted", "resolved", "archived"}
NoDestroy == [id |-> 0, status |-> 0]

\* get_queryset: spam is filtered out unless include_spam=true.
get_queryset(include_spam) ==
    {r \in contacts : include_spam \/ ~r.is_spam}

\* ContactSubmissionViewSet.destroy, "Soft delete - archive instead of
\* delete": 404 when get_object finds no row of that id in the queryset;
\* otherwise the row's status becomes 'archived', it is saved, and the
\* answer is 204.
destroy(id, include_spam) ==
    /\ IF \E r \in get_queryset(include_spam) : r.id = id
       THEN LET instance == CHOOSE r \in get_queryset(include_spam) : r.id = id
            IN  /\ contacts' = (contacts \ {instance}) \cup
                                  {[instance EXCEPT !.status = "archived"]}
                /\ destroyResp' = [id |-> id, status |-> 204]
       ELSE /\ destroyResp' = [id |-> id, status |-> 404]
            /\ UNCHANGED contacts
    /\ UNCHANGED <<now, waitlist, leads, newsletter, events, pageviews, conversions,
                   consents, audits>>

\* update_status (PATCH) with a status.
update_status(id, new_status) ==
    /\ \E r \in get_queryset(FALSE) :
          /\ r.id = id
          /\ contacts' = (contacts \ {r}) \cup {[r EXCEPT !.status = new_status]}
    /\ UNCHANGED <<now, waitlist, leads, newsletter, events, pageviews, conversions,
                   consents, audits, destroyResp>>

\* ContactSubmission.mark_as_spam(): is_spam = True, status = 'archived'.
mark_as_spam(id) ==
    /\ \E r \in contacts :
          /\ r.id = id
          /\ ~r.is_spam
          /\ contacts' = (contacts \ {r}) \cup
                            {[r EXCEPT !.is_spam = TRUE, !.status = "archived"]}
    /\ UNCHANGED <<now, waitlist, leads, newsletter, events, pageviews, conversions,
                   consents, audits, destroyResp>>

ContactAdminInit ==
    destroyResp = NoDestroy

NextContactAdmin ==
    \/ \E e \in Emails : AdminAddContact(e) /\ UNCHANGED destroyResp
    \/ \E id \in ContactIds, include_spam \in BOOLEAN : destroy(id, include_spam)
    \/ \E id \in ContactIds, st \in ContactStatuses : update_status(id, st)
    \/ \E id \in ContactIds : mark_as_spam(id)

-----------------------------------------------------------------------------
\* A/B test statistics (ab_testing/models.py: ABTestStats.calculate_stats)

MaxVisitors == 4
CHI2_CRITICAL == 38415
Variants == {"A", "B"}

Abs(x) == IF x < 0 THEN 0 - x ELSE x
Max(x, y) == IF x > y THEN x ELSE y

\* The contingency table of calculate_stats:
\* [[conversions_A, visitors_A - conversions_A],
\*  [conversions_B, visitors_B - conversions_B]]
Contingency(va, ca, vb, cb) == <<<<ca, va - ca>>, <<cb, vb - cb>>>>

\* scipy.stats.chi2_contingency raises ValueError for a table with a negative
\* entry, or with a zero expected frequency (a row or a column that sums to 0).
Chi2Raises(t) ==
    \/ \E i \in 1..2, j \in 1..2 : t[i][j] < 0
    \/ \E i \in 1..2 : t[i][1] + t[i][2] = 0
    \/ \E j \in 1..2 : t[1][j] + t[2][j] = 0

\* p_value < 0.05 for the 2x2 table t: with one degree of freedom that is
\* chi2 > 3.8415, where chi2_contingency applies Yates' correction:
\* chi2 = N * max(0, |ad - bc| - N/2)^2 / (row1 * row2 * col1 * col2).
\* Compared in integers: 4 * chi2 against 4 * 3.8415, in ten-thousandths.
Significant(t) ==
    LET a == t[1][1]
        b == t[1][2]
        c == t[2][1]
        d == t[2][2]
        N == a + b + c + d
        m == Max(0, 2 * Abs(a * d - b * c) - N)
    IN  N * m * m * 10000 > 4 * CHI2_CRITICAL * (a + b) * (c + d) * (a + c) * (b + d)

\* variant_b_conversion_rate > variant_a_conversion_rate, both just computed
\* as conversions / visitors * 100 (visitors > 0): compared exactly.
RateGreater(c1, v1, c2, v2) == c1 * v2 > c2 * v1

\* The winner the significant branch stores.
WinnerByRateOnly(va, ca, vb, cb) ==
    IF RateGreater(cb, vb, ca, va) THEN "B"
    ELSE IF RateGreater(ca, va, cb, vb) THEN "A"
    ELSE "N"
DetermineWinner(va, ca, vb, cb) ==
    IF Significant(Contingency(va, ca, vb, cb))
    THEN WinnerByRateOnly(va, ca, vb, cb)
    ELSE "N"

NoStats == [statistical_significance |-> "None", winner |-> "None"]

\* ABTestStats.calculate_stats. The counts are read and the rates computed.
\* Only when both variants have visitors is the winner touched: with scipy
\* and a valid table the p-value and the winner are set. Without scipy
\* (ImportError) or with a table chi2_contingency rejects, the except clause
\* calls logger, a name the module does not define: NameError leaves the
\* method before self.save(), so the stored row keeps what it had. With a
\* variant without visitors the row is saved with its winner untouched.
calculate_stats(scipy_installed) ==
    /\ LET va == variantCount["A"]
           vb == variantCount["B"]
           ca == conversionCount["A"]
           cb == conversionCount["B"]
           t == Contingency(va, ca, vb, cb)
       IN  IF va > 0 /\ vb > 0
           THEN IF ~scipy_installed \/ Chi2Raises(t)
                THEN /\ statsCall' = "raised"
                     /\ UNCHANGED stats
                ELSE /\ stats' = [statistical_significance |->
                                      IF Significant(t) THEN "below" ELSE "not_below",
                                  winner |-> DetermineWinner(va, ca, vb, cb)]
                     /\ statsCall' = "saved"
           ELSE /\ statsCall' = "saved"
                /\ UNCHANGED stats
    /\ UNCHANGED <<variantCount, conversionCount>>

\* get_variant stores a VariantAssignment of variant v.
AddAssignment(v) ==
    /\ variantCount[v] < MaxVisitors
    /\ variantCount' = [variantCount EXCEPT ![v] = @ + 1]
    /\ statsCall' = "idle"
    /\ UNCHANGED <<conversionCount, stats>>

\* An assignment is deleted (admin).
DeleteAssignment(v) ==
    /\ variantCount[v] > 0
    /\ variantCount' = [variantCount EXCEPT ![v] = @ - 1]
    /\ statsCall' = "idle"
    /\ UNCHANGED <<conversionCount, stats>>

\* track_conversion stores a ConversionByVariant of variant v: one row per
\* conversion, so a visitor can convert more than once.
AddConversion(v) ==
    /\ variantCount[v] > 0
    /\ conversionCount[v] < MaxVisitors + 1
    /\ conversionCount' = [conversionCount EXCEPT ![v] = @ + 1]
    /\ statsCall' = "idle"
    /\ UNCHANGED <<variantCount, stats>>

StatsInit ==
    /\ variantCount = [v \in Variants |-> 0]
    /\ conversionCount = [v \in Variants |-> 0]
    /\ stats = NoStats
    /\ statsCall = "idle"

NextStats ==
    \/ \E v \in Variants : AddAssignment(v)
    \/ \E v \in Variants : DeleteAssignment(v)
    \/ \E v \in Variants : AddConversion(v)
    \/ \E scipy_installed \in BOOLEAN : calculate_stats(scipy_installed)

-----------------------------------------------------------------------------
Init ==
    /\ SpamInit
    /\ AbInit
    /\ PolicyInit
    /\ TaskInit
    /\ ContactInit
    /\ StoreInit
    /\ GdprInit
    /\ RetentionInit
    /\ WebhookInit
    /\ LeadInit
    /\ CrmInit
    /\ StatsInit
    /\ ContactAdminInit

SpecSpam ==
    Init /\ [][NextSpam /\ UNCHANGED <<abVars, policyVars, taskVars, contactVars,
                storeVars, gdprVars, retentionVars, leadVars, crmVars, contactAdminVars,
                statsVars, webhookVars>>]_vars
SpecAb ==
    Init /\ [][NextAb /\ UNCHANGED <<spamVars, policyVars, taskVars, contactVars,
                storeVars, gdprVars, retentionVars, leadVars, crmVars, contactAdminVars,
                statsVars, webhookVars>>]_vars
SpecPolicy ==
    Init /\ [][NextPolicy /\ UNCHANGED <<spamVars, abVars, taskVars, contactVars,
                storeVars, gdprVars, retentionVars, leadVars, crmVars, contactAdminVars,
                statsVars, webhookVars>>]_vars
SpecTask ==
    Init /\ [][NextTask /\ UNCHANGED <<spamVars, abVars, policyVars, contactVars,
                storeVars, gdprVars, retentionVars, leadVars, crmVars, contactAdminVars,
                statsVars, webhookVars>>]_vars
SpecContact ==
    Init /\ [][NextContact /\ UNCHANGED <<spamVars, abVars, policyVars, taskVars, now,
                waitlist, leads, newsletter, events, pageviews, conversions, consents,
                audits, gdprVars, retentionVars, leadVars, crmVars, contactAdminVars,
                statsVars, webhookVars>>]_vars
SpecGdpr ==
    Init /\ [][NextGdpr /\ UNCHANGED <<spamVars, policyVars, taskVars, contactVars,
                retentionVars, leadVars, crmVars, contactAdminVars, statsVars, webhookVars>>]_vars
SpecRetention ==
    Init /\ [][NextRetention /\ UNCHANGED <<spamVars, policyVars, taskVars, contactVars,
                gdprVars, leadVars, crmVars, contactAdminVars, statsVars, webhookVars>>]_vars
SpecWebhook ==
    Init /\ [][NextWebhook /\ UNCHANGED <<spamVars, abVars, policyVars, taskVars,
                contactVars, storeVars, gdprVars, retentionVars, leadVars, crmVars,
                contactAdminVars, statsVars>>]_vars
\* The periodic task runs retry_failed_webhooks again and again, and time passes.
SpecWebhookFair ==
    /\ SpecWebhook
    /\ WF_webhookVars(\E f \in [DueEvents -> Outcomes] : retry_failed_webhooks(f))
    /\ WF_webhookVars(RetryDelayOver)
SpecLead ==
    Init /\ [][NextLead /\ UNCHANGED <<spamVars, abVars, policyVars, taskVars, contactVars,
                gdprVars, retentionVars, crmVars, contactAdminVars, statsVars, webhookVars>>]_vars
SpecLeadRate ==
    Init /\ [][NextLeadRate /\ UNCHANGED <<spamVars, abVars, policyVars, taskVars,
                contactVars, gdprVars, retentionVars, crmVars, contactAdminVars, statsVars,
                webhookVars>>]_vars
SpecCrm ==
    Init /\ [][NextCrm /\ UNCHANGED <<spamVars, abVars, policyVars, taskVars, contactVars,
                storeVars, gdprVars, retentionVars, leadVars, contactAdminVars, statsVars,
                webhookVars>>]_vars
SpecNewsletter ==
    Init /\ [][NextNewsletter /\ UNCHANGED <<spamVars, abVars, policyVars, taskVars,
                contactVars, gdprVars, retentionVars, leadVars, crmVars, contactAdminVars,
                statsVars, webhookVars>>]_vars
SpecContactAdmin ==
    Init /\ [][NextContactAdmin /\ UNCHANGED <<spamVars, abVars, policyVars, taskVars,
                contactVars, gdprVars, retentionVars, leadVars, crmVars, statsVars,
                webhookVars>>]_vars
SpecStats ==
    Init /\ [][NextStats /\ UNCHANGED <<spamVars, abVars, policyVars, taskVars,
                contactVars, storeVars, gdprVars, retentionVars, leadVars, crmVars,
                contactAdminVars, webhookVars>>]_vars

\* C1: the score calculate_spam_score returns is between 0 and 1 inclusive,
\* whatever the honeypot value, reCAPTCHA outcome, rate-limit state and content.
C1_ScoreInUnitRange ==
    spamPc = "done" => (spamResult.score >= 0 /\ spamResult.score <= ONE)

\* A content-path return whose accumulated score exceeded 1.0 and was clamped.
C1_Witness ==
    /\ spamPc = "done"
    /\ spam_score > ONE
    /\ spamResult.score = ONE
    /\ data.len > 0

\* C2: for a fixed test and user, every get_variant call that returns a variant
\* returns the same one, also when traffic_split changes between the calls.
C2_VariantStable ==
    \A u \in Users : Cardinality(returned[u]) <= 1

\* A user whom get_variant answered again after traffic_split changed to a
\* value that would no longer give the stored variant.
C2_Witness ==
    \E u \in Users :
        /\ returned[u] # {}
        /\ afterChange[u] = "answered"
        /\ assignments[u] # "none"
        /\ assign_variant(u) # assignments[u]
        /\ abStatus = "active"

\* C6: a failing send_email_task is retried at most 3 times, with countdowns of
\* 60, 120 and 240 seconds, and then gives up.
C6_BackoffSchedule ==
    \A t \in TaskIds :
        /\ tasks[t].retries <= 3
        /\ Len(tasks[t].delays) = tasks[t].retries
        /\ tasks[t].delays = SubSeq(<<60, 120, 240>>, 1, Len(tasks[t].delays))
        /\ tasks[t].state = "failed" => tasks[t].retries = 3

\* A task that failed four times in a row and gave up after its third retry.
C6_Witness ==
    \E t \in TaskIds : tasks[t].state = "failed" /\ tasks[t].delays = <<60, 120, 240>>

\* C8: after any sequence of PrivacyPolicy saves at most one policy is active.
C8_AtMostOneActive ==
    Cardinality(ActivePolicies(policies)) <= 1

\* A policy saved as active while another one was active, which the save
\* deactivated.
C8_Witness ==
    /\ policyLast.is_active
    /\ policyLast.deactivated # {}
    /\ policies[policyLast.id] = "active"

\* C9: from one IP at most 5 contact POSTs of a window get past the rate limit;
\* every further one is answered 429 and stores no submission.
C9_ContactRateLimit ==
    \A ip \in IPs :
        /\ contactPassed[ip] <= 5
        /\ contactHits[ip] > 5 =>
              (contactResp[ip].status = 429 /\ ~contactResp[ip].created)
        /\ contactPassed[ip] = Min(contactHits[ip], 5)

\* An IP whose sixth and seventh POST of the window were refused.
C9_Witness ==
    \E ip \in IPs :
        /\ contactHits[ip] = 7
        /\ contactPassed[ip] = 5
        /\ contactResp[ip].status = 429


\* C3: a deletion request without confirmation=true is answered 400 and changes
\* nothing that is stored.
C3_ConfirmationRequired ==
    [][\A ip \in GdprIPs :
          (gdprPassed'[ip] > gdprPassed[ip] /\ ~gdprResp'.confirmation)
             => (gdprResp'.status = 400 /\ UNCHANGED storeVars)]_vars

\* C4: after a deletion without anonymize, no contact, waitlist entry, lead,
\* newsletter subscription, A/B assignment, A/B conversion or analytics event of
\* the email remains.
C4_NothingRemains ==
    [][\A ip \in GdprIPs :
          (gdprPassed'[ip] > gdprPassed[ip] /\ gdprResp'.status = 200
             /\ ~gdprResp'.anonymize)
             => LET e == gdprResp'.email
                IN  /\ WithEmail(contacts', e) = {}
                    /\ WithEmail(waitlist', e) = {}
                    /\ WithEmail(leads', e) = {}
                    /\ WithEmail(newsletter', e) = {}
                    /\ WithEmail(events', e) = {}
                    /\ assignments'[e] = "none"
                    /\ e \notin conversions']_vars

\* C7: a retention policy with retention_days = 0 keeps its records forever: a
\* run of apply_retention_policies deletes or anonymizes none of them.
C7_ZeroKeepsForever ==
    \A t \in DataTypes : retentionLog.days[t] = 0 => retentionLog.touched[t] = 0

\* C10: within one window at most 3 delete requests of an IP, DELETE or POST,
\* get past the rate limit.
C10_GdprRateLimit ==
    \A ip \in GdprIPs : gdprPassed[ip] <= GDPR_RATE

\* C5: a delivery that keeps failing is re-sent at most retry_attempts times:
\* no more than 1 + retry_attempts requests are sent for it.
C5_RetriesBounded ==
    \A o \in 1..Len(webhookEvents) :
        (\A i \in Posts(o) : webhookEvents[i].status # "sent")
           => Cardinality(Posts(o)) <= 1 + retry_attempts

\* C11: the lead-capture endpoint processes at most 10 requests per IP address
\* per hour; every further request of that hour is rejected (429) and neither
\* creates nor updates a lead.
C11_LeadRateLimit ==
    [][\A ip \in LeadIPs :
          (leadHits[ip] >= LEAD_RATE /\ leadHits'[ip] > leadHits[ip]) =>
              /\ leadResp'.status = 429
              /\ leads' = leads
              /\ leadConversions' = leadConversions]_vars

\* C14: a lead capture never adds a lead for an email that already has one,
\* and never more than one for an email that has none; a valid capture of an
\* email that has a lead leaves the same leads, one of that email now carrying
\* the fields of the request.
C14_OneLeadPerEmail ==
    [][\A ip \in LeadIPs : leadHits'[ip] > leadHits[ip] =>
          /\ \A e \in Emails :
                Cardinality(WithEmail(leads', e)) <=
                    IF WithEmail(leads, e) = {} THEN 1 ELSE Cardinality(WithEmail(leads, e))
          /\ (leadResp'.body.valid /\ WithEmail(leads, leadResp'.body.email) # {}) =>
                /\ {l.id : l \in leads'} = {l.id : l \in leads}
                /\ \E o \in WithEmail(leads, leadResp'.body.email) :
                      \E l \in leads' :
                         /\ l.id = o.id
                         /\ [l EXCEPT !.lead_score = 0] =
                                [SetFields(o, leadResp'.body) EXCEPT !.lead_score = 0]
                         /\ leads' \ {l} = leads \ {o}]_vars

\* A valid capture of an email that had a lead has updated that lead.
C14_Witness ==
    /\ leadResp.body.valid
    /\ \E l \in leads :
          /\ l.email = leadResp.body.email
          /\ l.first_name = leadResp.body.first_name
          /\ l.company = "Acme"
          /\ leadConversions[l.id] > 0

\* C15: the lead_score of every lead is between 0 and 100 inclusive, after
\* any sequence of captures, engagement events, admin updates and
\* recalculations.
C15_LeadScoreRange ==
    \A l \in leads : l.lead_score >= 0 /\ l.lead_score <= MAX_LEAD_SCORE

\* A lead with engagement events and conversions whose score stands at 100.
C15_Witness ==
    \E l \in leads :
        /\ l.lead_score = MAX_LEAD_SCORE
        /\ WithEmail(events, l.email) # {}
        /\ leadConversions[l.id] > 0

\* C12: when the sync of an entity to the CRM fails, sync_to_crm_task retries
\* it with exponential backoff, up to 3 times: a run in which the CRM call
\* failed leaves the task waiting for a retry, or failed after its third retry.
C12_CrmSyncRetried ==
    \A t \in CrmTaskIds :
        crmTasks[t].last = "crm_error" =>
            \/ crmTasks[t].state \in {"retry_wait", "queued"}
            \/ crmTasks[t].state = "failed" /\ crmTasks[t].retries = MAX_RETRIES

\* C13: under the double opt-in flow an email submitted to subscribe_newsletter
\* is not an active subscriber (status 'subscribed') until its verification
\* token has been confirmed through verify_newsletter_subscription: every
\* stored subscription whose status is 'subscribed' is verified.
C13_DoubleOptIn ==
    \A r \in newsletter : r.subscription_status = "subscribed" => r.is_verified

\* C16: after an admin DELETE on a contact submission has been answered 204,
\* no contact submission with that id exists any more.
C16_DeleteRemovesRow ==
    destroyResp.status = 204 => \A r \in contacts : r.id # destroyResp.id

\* C17: a message longer than 20 characters in which more than 70% of the
\* characters are uppercase is flagged as spam by check_content, with a
\* content score above 0.5.
C17_CapsFlagged ==
    (spamPc # "idle" /\ data.len > CAPS_MIN_LEN
                    /\ data.upper * ONE > CAPS_RATIO_THRESHOLD * data.len) =>
        (check_content(data)[1] /\ check_content(data)[2] > 500)

\* C18: when a webhook request times out or fails with a connection error, the
\* WebhookEvent created for that request leaves 'pending': its attempt_count
\* is incremented and its status is 'retrying' or 'failed'.
C18_TimeoutLeavesPending ==
    \A i \in 1..Len(webhookEvents) :
        webhookEvents[i].outcome \in {"timeout", "connection_error"} =>
            /\ webhookEvents[i].attempt_count >= 1
            /\ webhookEvents[i].status \in {"retrying", "failed"}

\* C19: if retry_failed_webhooks keeps being run, every WebhookEvent eventually
\* reaches status 'sent' or 'failed'; none stays 'pending' or 'retrying' for
\* ever.
C19_EveryEventSettles ==
    \A i \in 1..MaxEvents :
        [](Len(webhookEvents) >= i =>
              <>(Len(webhookEvents) >= i /\ webhookEvents[i].status \in {"sent", "failed"}))

\* C20: after calculate_stats the recorded winner is 'A' or 'B' only when the
\* chi-square p-value is below 0.05 and that variant's conversion rate is
\* strictly higher than the other's; in every other case the winner is 'N'.
C20_WinnerOnlyIfSignificant ==
    statsCall # "idle" =>
        LET va == variantCount["A"]
            vb == variantCount["B"]
            ca == conversionCount["A"]
            cb == conversionCount["B"]
            t == Contingency(va, ca, vb, cb)
            below == va > 0 /\ vb > 0 /\ ~Chi2Raises(t) /\ Significant(t)
        IN  /\ stats.winner \in {"A", "B", "N"}
            /\ stats.winner = "A" <=> (below /\ RateGreater(ca, va, cb, vb))
            /\ stats.winner = "B" <=> (below /\ RateGreater(cb, vb, ca, va))

\* C21: on every return of calculate_spam_score other than the reCAPTCHA
\* early return, is_spam is true exactly when the returned score is greater
\* than 0.7; the reCAPTCHA early return answers is_spam true whatever the score.
C21_SpamIffAboveThresholdExceptRecaptcha ==
    [][(spamPc # "done" /\ spamPc' = "done") =>
          \/ spamResult'.is_spam <=> (spamResult'.score > SPAM_THRESHOLD)
          \/ spamPc = "recaptcha" /\ spamResult'.is_spam]_vars

\* C21 as stated: every return of calculate_spam_score has is_spam true exactly
\* when the returned score is greater than 0.7.
C21_SpamIffAboveThreshold ==
    spamPc = "done" =>
        (spamResult.is_spam <=> (spamResult.score > SPAM_THRESHOLD))

\* A return at the end of calculate_spam_score with a score above 0.7 and below
\* the clamp: only the content path returns such a score.
C21_Witness ==
    /\ spamPc = "done"
    /\ spamResult.is_spam
    /\ spamResult.score > SPAM_THRESHOLD
    /\ spamResult.score < ONE

\* C22: a contact submission that the spam check classifies as spam is stored
\* as a row marked is_spam and answered 201, and sets off no confirmation
\* email, CRM sync, A/B conversion or webhook.
C22_SpamStoredSilently ==
    \A ip \in IPs :
        contactResp[ip].verdict = "spam" =>
            /\ contactResp[ip].effects = {}
            /\ contactResp[ip].status = 201
            /\ \E r \in contacts : r.id = contactResp[ip].submission_id /\ r.is_spam

====
